---- MODULE Spec2Model ----
(***************************************************************************)
(* Model of the survey application (CoreApps/surveys):                     *)
(*   utils.py       minimum_curvature, process_survey_file                 *)
(*   visualizer.py  generate_3d_plot with its helper get_path_segment      *)
(*                                                                         *)
(* Numbers.  Python floats are modelled as tagged values: Fin(n) is a      *)
(* finite number, NaN is not-a-number, PInf / NInf are the infinities.     *)
(* Depths of the Survey sheet are even integers, so that delta_md / 2 is   *)
(* exact; inclination and azimuth are whole degrees taken from {0, 90},    *)
(* where sine and cosine are exactly 0 or 1.  Offsets (north, east, tvd)   *)
(* and dls are kept in thousandths (the ratio factor 4/pi is 1.273).       *)
(* Arithmetic is the real-number arithmetic of the formulas, extended with *)
(* the IEEE rules for NaN and the infinities; rounding is not modelled.    *)
(***************************************************************************)
EXTENDS Integers, Sequences, FiniteSets, TLC

VARIABLES
    pc,          \* position of the request being served
    file,        \* the uploaded workbook handed to process_survey_file
    status,      \* SurveyImport.status
    ret,         \* return value of process_survey_file
    ntraj,       \* number of Trajectory rows in the database
    stations,    \* TrajectoryStation rows of the trajectory, as stored
    geoms,       \* BoreholeGeometry rows of the trajectory, as stored
    traj,        \* the trajectory handed to generate_3d_plot
    range,       \* the depth range handed to get_path_segment
    segment,     \* result of get_path_segment
    plot,        \* result of generate_3d_plot
    well         \* the rows of one well: its trajectories and imports

vars == <<pc, file, status, ret, ntraj, stations, geoms, traj, range, segment, plot, well>>

(***************************************************************************)
(* Bounds of the model.                                                    *)
(***************************************************************************)
MaxRows == 2        \* rows of the Survey sheet
MaxMDIdx == 2       \* survey depths are 2*i for i in -1 .. MaxMDIdx
MaxMechRows == 2    \* rows of the Mechanical sheet
MaxStrLen == 2      \* length of the enumerated diameter texts
MaxDepth == 4       \* station depths handed to get_path_segment are 0 .. MaxDepth
MaxPlotDepth == 2   \* depths of the trajectories handed to generate_3d_plot
MaxStations == 3    \* stations of the trajectory handed to get_path_segment
MaxGeom == 2        \* geometry rows of the trajectory handed to generate_3d_plot
MaxImports == 3     \* uploads posted to the well
MaxMinute == 1      \* the clock of the uploads reads minute 0 .. MaxMinute

(***************************************************************************)
(* Floats.                                                                 *)
(***************************************************************************)
Fin(n) == [k |-> "fin", v |-> n]
NaN == [k |-> "nan", v |-> 0]
PInf == [k |-> "inf", v |-> 1]
NInf == [k |-> "inf", v |-> -1]

IsFinite(x) == x.k = "fin"
IsNaN(x) == x.k = "nan"
IsInf(x) == x.k = "inf"

Abs(n) == IF n < 0 THEN -n ELSE n
Sgn(n) == IF n < 0 THEN -1 ELSE IF n > 0 THEN 1 ELSE 0
\* sign of a non-NaN float; zero has sign 0
FSign(x) == IF IsInf(x) THEN x.v ELSE Sgn(x.v)
InfOf(s) == IF s < 0 THEN NInf ELSE PInf

FNeg(x) == IF IsNaN(x) THEN NaN ELSE [k |-> x.k, v |-> -x.v]

FAdd(a, b) ==
    IF IsNaN(a) \/ IsNaN(b) THEN NaN
    ELSE IF IsInf(a) /\ IsInf(b) THEN (IF a.v = b.v THEN a ELSE NaN)
    ELSE IF IsInf(a) THEN a
    ELSE IF IsInf(b) THEN b
    ELSE Fin(a.v + b.v)

FSub(a, b) == FAdd(a, FNeg(b))

FMul(a, b) ==
    IF IsNaN(a) \/ IsNaN(b) THEN NaN
    ELSE IF IsInf(a) \/ IsInf(b)
         THEN (IF FSign(a) * FSign(b) = 0 THEN NaN ELSE InfOf(FSign(a) * FSign(b)))
    ELSE Fin(a.v * b.v)

\* a / b for b # 0; finite quotients are exact for the values of the model
FDiv(a, b) ==
    IF IsNaN(a) \/ IsNaN(b) THEN NaN
    ELSE IF IsInf(a) /\ IsInf(b) THEN NaN
    ELSE IF IsInf(a) THEN InfOf(FSign(a) * (IF FSign(b) < 0 THEN -1 ELSE 1))
    ELSE IF IsInf(b) THEN Fin(0)
    ELSE Fin(Sgn(a.v) * Sgn(b.v) * (Abs(a.v) \div Abs(b.v)))

\* a < b of Python: false whenever a NaN is involved
FLess(a, b) ==
    /\ ~IsNaN(a)
    /\ ~IsNaN(b)
    /\ IF IsInf(a) THEN a.v < 0 /\ b # NInf
       ELSE IF IsInf(b) THEN b.v > 0
       ELSE a.v < b.v

(***************************************************************************)
(* utils.py: minimum_curvature.  Angles are whole degrees; radians() is    *)
(* folded into the sine and cosine tables.                                 *)
(***************************************************************************)
SinDeg(d) == CASE d = 0 -> 0 [] d = 90 -> 1 [] d = -90 -> -1
CosDeg(d) == CASE d = 0 -> 1 [] d = 90 -> 0 [] d = -90 -> 0

\* math.sin / math.cos on a value that is not infinite (NaN passes through)
FSin(x) == IF IsNaN(x) THEN NaN ELSE Fin(SinDeg(x.v))
FCos(x) == IF IsNaN(x) THEN NaN ELSE Fin(CosDeg(x.v))

\* math.acos, in degrees, on the clamped cosine
FAcos(c) ==
    IF IsNaN(c) THEN NaN
    ELSE CASE c.v = 1 -> Fin(0) [] c.v = 0 -> Fin(90) [] c.v = -1 -> Fin(180)

\* math.sin and math.cos raise ValueError on an infinite argument; every angle
\* of the call reaches one of them (lines 19 and 34 to 36)
MCRaises(md1, inc1, azi1, md2, inc2, azi2) ==
    IsInf(inc1) \/ IsInf(inc2) \/ IsInf(azi1) \/ IsInf(azi2)

\* lines 22 and 23: a NaN compares false and is kept
ClampCos(c) ==
    IF FLess(Fin(1), c) THEN Fin(1)
    ELSE IF FLess(c, Fin(-1)) THEN Fin(-1)
    ELSE c

\* lines 28 to 31, in thousandths: beta < 0.0001 rad holds for 0 degrees only;
\* for 90 degrees 2 / beta * tan(beta / 2) = 4 / pi = 1.273
RatioFactor(beta) ==
    IF FLess(beta, Fin(1)) THEN Fin(1000)
    ELSE IF IsNaN(beta) THEN NaN
    ELSE CASE beta.v = 90 -> Fin(1273)

\* delta_md / 2 (depths are even)
Half(x) == IF IsFinite(x) THEN Fin(x.v \div 2) ELSE x

\* lines 39 to 42, in thousandths
DoglegSeverity(beta, delta_md) ==
    IF delta_md = Fin(0) THEN Fin(0)
    ELSE FDiv(FMul(beta, Fin(30 * 1000)), delta_md)

minimum_curvature(md1, inc1, azi1, md2, inc2, azi2) ==
    IF MCRaises(md1, inc1, azi1, md2, inc2, azi2) THEN [raised |-> TRUE]
    ELSE
    LET delta_md == FSub(md2, md1)
        cos_beta == ClampCos(FSub(FCos(FSub(inc2, inc1)),
                        FMul(FMul(FSin(inc1), FSin(inc2)),
                             FSub(Fin(1), FCos(FSub(azi2, azi1))))))
        beta == FAcos(cos_beta)
        rf == RatioFactor(beta)
    IN  [raised |-> FALSE,
         delta_north |-> FMul(FMul(Half(delta_md),
                            FAdd(FMul(FSin(inc1), FCos(azi1)),
                                 FMul(FSin(inc2), FCos(azi2)))), rf),
         delta_east |-> FMul(FMul(Half(delta_md),
                            FAdd(FMul(FSin(inc1), FSin(azi1)),
                                 FMul(FSin(inc2), FSin(azi2)))), rf),
         delta_tvd |-> FMul(FMul(Half(delta_md),
                            FAdd(FCos(inc1), FCos(inc2))), rf),
         dls |-> DoglegSeverity(beta, delta_md)]

(***************************************************************************)
(* utils.py: process_survey_file, the Survey sheet.                        *)
(* A row is [MD, Inc, Azi]; its index label is its position in the sheet,  *)
(* counted from 0, and sort_values keeps the label with the row.           *)
(***************************************************************************)
Perms(n) == {p \in [1..n -> 1..n] : \A i, j \in 1..n : i # j => p[i] # p[j]}

\* df.sort_values('MD'): ascending, NaN last in sheet order; the default kind is
\* quicksort, which is not stable, so rows of equal depth come in any order
SortOrders(rows) ==
    {p \in Perms(Len(rows)) :
        \A i, j \in 1..Len(rows) : i < j =>
            /\ ~FLess(rows[p[j]].MD, rows[p[i]].MD)
            /\ IsNaN(rows[p[i]].MD) => IsNaN(rows[p[j]].MD) /\ p[i] < p[j]}

\* lines 79 and 80
AccInit == [n |-> Fin(0), e |-> Fin(0), tvd |-> Fin(0),
            prev_md |-> Fin(0), prev_inc |-> Fin(0), prev_azi |-> Fin(0),
            out |-> <<>>, raised |-> FALSE]

\* the tie-in test of line 91
IsTieIn(index, md) == index = 0 /\ md = Fin(0)

\* one iteration of the loop of lines 86 to 106 on the row with label index
AccStep(a, index, row) ==
    IF IsTieIn(index, row.MD)
    THEN [a EXCEPT !.out = Append(@, [md |-> row.MD, inclination |-> row.Inc,
                                      azimuth |-> row.Azi, tvd |-> a.tvd,
                                      north |-> a.n, east |-> a.e, dls |-> Fin(0)]),
                   !.prev_md = row.MD, !.prev_inc = row.Inc, !.prev_azi = row.Azi]
    ELSE LET d == minimum_curvature(a.prev_md, a.prev_inc, a.prev_azi,
                                    row.MD, row.Inc, row.Azi)
         IN  IF d.raised THEN [a EXCEPT !.raised = TRUE]
             ELSE LET n2 == FAdd(a.n, d.delta_north)
                      e2 == FAdd(a.e, d.delta_east)
                      t2 == FAdd(a.tvd, d.delta_tvd)
                  IN  [a EXCEPT !.n = n2, !.e = e2, !.tvd = t2,
                          !.out = Append(@, [md |-> row.MD, inclination |-> row.Inc,
                                             azimuth |-> row.Azi, tvd |-> t2,
                                             north |-> n2, east |-> e2, dls |-> d.dls]),
                          !.prev_md = row.MD, !.prev_inc = row.Inc,
                          !.prev_azi = row.Azi]

RECURSIVE AccLoop(_, _, _, _)
AccLoop(rows, order, k, a) ==
    IF a.raised \/ k > Len(rows) THEN a
    ELSE AccLoop(rows, order, k + 1, AccStep(a, order[k] - 1, rows[order[k]]))

\* lines 76 to 106 for one outcome of the sort
Accumulate(rows, order) == AccLoop(rows, order, 1, AccInit)

(***************************************************************************)
(* utils.py: process_survey_file, the Mechanical sheet.                    *)
(* A cell is a number [t |-> "num", f |-> value], a text                   *)
(* [t |-> "str", s |-> sequence of characters] or a date [t |-> "date"].   *)
(* A diameter is a fraction [k |-> "fin", num, den] with den > 0, or NaN.  *)
(***************************************************************************)
Rat(n, d) == [k |-> "fin", num |-> n, den |-> d]

Digits == {"0", "1", "2", "3", "4", "5", "6", "7", "8", "9"}

DigitVal(c) ==
    CASE c = "0" -> 0 [] c = "1" -> 1 [] c = "2" -> 2 [] c = "3" -> 3 [] c = "4" -> 4
      [] c = "5" -> 5 [] c = "6" -> 6 [] c = "7" -> 7 [] c = "8" -> 8 [] c = "9" -> 9

RECURSIVE Pow10(_)
Pow10(n) == IF n = 0 THEN 1 ELSE 10 * Pow10(n - 1)

\* the value of a sequence of digits
RECURSIVE DigitsVal(_)
DigitsVal(s) ==
    IF s = <<>> THEN 0
    ELSE 10 * DigitsVal(SubSeq(s, 1, Len(s) - 1)) + DigitVal(s[Len(s)])

\* str.replace(',', '.')
ReplaceComma(s) == [i \in 1..Len(s) |-> IF s[i] = "," THEN "." ELSE s[i]]

\* float(text) for texts made of digits, sign, point and other characters:
\* [sign] digits [. [digits]]  or  [sign] . digits ; anything else is a ValueError
ParseFloat(s) ==
    LET signed == s # <<>> /\ s[1] \in {"-", "+"}
        body == IF signed THEN Tail(s) ELSE s
        dots == {i \in 1..Len(body) : body[i] = "."}
        dot == IF dots = {} THEN Len(body) + 1 ELSE CHOOSE i \in dots : TRUE
        ip == SubSeq(body, 1, dot - 1)
        fp == SubSeq(body, dot + 1, Len(body))
        wellformed == /\ Cardinality(dots) <= 1
                      /\ \A i \in 1..Len(body) : body[i] \in Digits \/ body[i] = "."
                      /\ Len(ip) + Len(fp) > 0
        mag == DigitsVal(ip) * Pow10(Len(fp)) + DigitsVal(fp)
    IN  IF ~wellformed THEN [ok |-> FALSE]
        ELSE [ok |-> TRUE,
              val |-> Rat(IF signed /\ s[1] = "-" THEN -mag ELSE mag, Pow10(Len(fp)))]

\* line 134
FallbackDiameter == Rat(85, 10)

\* the heuristic with the bound 100 itself taken as a scale error
ScaleHeuristicInclusive(d) ==
    IF d.k = "fin" /\ d.num >= 100 * d.den THEN Rat(d.num, d.den * 1000) ELSE d

\* lines 130 and 131: a NaN compares false and is kept
ScaleHeuristic(d) ==
    IF d.k = "fin" /\ d.num > 100 * d.den THEN Rat(d.num, d.den * 1000) ELSE d

\* lines 120 to 134
SanitizeDiameter(raw_diameter) ==
    IF raw_diameter.t = "str"
    THEN LET p == ParseFloat(ReplaceComma(raw_diameter.s))
         IN  IF p.ok THEN ScaleHeuristic(p.val) ELSE FallbackDiameter
    ELSE IF raw_diameter.t = "num" THEN ScaleHeuristic(raw_diameter.f)
    ELSE FallbackDiameter

\* models.py line 132: the default of BoreholeGeometry.color, used only when the
\* constructor is given no color
DefaultColor == "#808080"

\* str(row['Color']): a text is kept, an empty cell (NaN) reads "nan"
ColorText(raw_color) == IF raw_color.t = "str" THEN raw_color.s ELSE "nan"

\* lines 136 to 143
GeometryOf(row) ==
    [item_type |-> row.Item, start_md |-> row.Top_MD, end_md |-> row.Bottom_MD,
     diameter |-> SanitizeDiameter(row.Diameter), color |-> ColorText(row.Color)]

\* lines 112 to 147: the geometry rows created from the Mechanical sheet
Geometries(mech) ==
    IF ~mech.present \/ ~mech.cols THEN <<>>
    ELSE [i \in 1..Len(mech.rows) |-> GeometryOf(mech.rows[i])]

(***************************************************************************)
(* utils.py: process_survey_file as a whole, for one outcome of the sort.  *)
(* f.readable: pd.ExcelFile opens the file; f.survey / f.mech: the sheet,  *)
(* .present: the workbook has it, .cols: it has the required columns.      *)
(* The result names the rows written to the database.                      *)
(***************************************************************************)
\* bulk_create of rows holding a NaN in a NOT NULL float column: the database,
\* which the settings outside the repository choose, either stores the NaN
\* (PostgreSQL) or refuses the insert with an IntegrityError (SQLite binds a NaN
\* as NULL); nan_ok tells which
StationsInsertFails(sts, nan_ok) ==
    /\ ~nan_ok
    /\ \E i \in 1..Len(sts) :
         IsNaN(sts[i].md) \/ IsNaN(sts[i].inclination) \/ IsNaN(sts[i].azimuth)

GeometryInsertFails(gs, nan_ok) ==
    /\ ~nan_ok
    /\ \E i \in 1..Len(gs) :
         IsNaN(gs[i].start_md) \/ IsNaN(gs[i].end_md) \/ IsNaN(gs[i].diameter)

Outcome(st, ok, created, sts, gs) ==
    [status |-> st, ret |-> ok, created |-> created, stations |-> sts, geoms |-> gs]

process_survey_file(f, order, nan_ok) ==
    IF ~f.readable THEN Outcome("ERROR", FALSE, 0, <<>>, <<>>)
    ELSE IF ~f.survey.present \/ ~f.survey.cols
    THEN Outcome("ERROR", FALSE, 1, <<>>, <<>>)
    ELSE LET a == Accumulate(f.survey.rows, order)
             gs == Geometries(f.mech)
         IN  IF a.raised \/ StationsInsertFails(a.out, nan_ok)
             THEN Outcome("ERROR", FALSE, 1, <<>>, <<>>)
             ELSE IF GeometryInsertFails(gs, nan_ok)
             THEN Outcome("ERROR", FALSE, 1, a.out, <<>>)
             ELSE Outcome("PROCESSED", TRUE, 1, a.out, gs)

\* the outcomes sort_values can produce for the file
FileOrders(f) ==
    IF f.readable /\ f.survey.present /\ f.survey.cols
    THEN SortOrders(f.survey.rows) ELSE {<<>>}

(***************************************************************************)
(* The workbooks of the model.                                             *)
(***************************************************************************)
SeqsUpTo(S, n) == UNION {[1..k -> S] : k \in 0..n}

MDs == {Fin(2 * i) : i \in -1..MaxMDIdx}

\* with inclination 0 the azimuth has no effect on the offsets
Headings == {<<Fin(0), Fin(0)>>, <<Fin(90), Fin(0)>>, <<Fin(90), Fin(90)>>}

FiniteRows == {[MD |-> m, Inc |-> h[1], Azi |-> h[2]] : m \in MDs, h \in Headings}

\* rows with an empty cell (NaN) or an infinite value in one column
NonFiniteRows ==
    {[MD |-> m, Inc |-> Fin(0), Azi |-> Fin(0)] : m \in {NaN, PInf}}
    \cup {[MD |-> m, Inc |-> NaN, Azi |-> Fin(0)] : m \in {Fin(0), Fin(2)}}
    \cup {[MD |-> Fin(2), Inc |-> PInf, Azi |-> Fin(0)],
          [MD |-> Fin(2), Inc |-> Fin(90), Azi |-> PInf]}

SurveyRows == FiniteRows \cup NonFiniteRows

NoSheet == [present |-> FALSE, cols |-> FALSE, rows |-> <<>>]
Sheet(rows) == [present |-> TRUE, cols |-> TRUE, rows |-> rows]
BadSheet == [present |-> TRUE, cols |-> FALSE, rows |-> <<>>]

TextCell(s) == [t |-> "str", s |-> s]
NumCell(f) == [t |-> "num", f |-> f]
DateCell == [t |-> "date"]
EmptyCell == NumCell(NaN)

DiameterTexts ==
    (SeqsUpTo({"9", ",", "x"}, MaxStrLen) \ {<<>>})
    \cup {<<"9", "6", "2", "5">>, <<"9", ",", "6", "2", "5">>,
          <<"n", "o", "t", "-", "a", "-", "n", "u", "m", "b", "e", "r">>,
          <<>>, <<".">>, <<"9", ".", "5">>, <<"1", ",", "5", ",", "2">>,
          <<"1", "0", "0">>, <<"1", "0", "1">>, <<"1", "0", "0", ",", "5">>,
          <<"-", "5">>, <<"5", ".">>, <<".", "5">>, <<"2", "0", "0", "0", "0", "0">>}

DiameterCells ==
    {TextCell(s) : s \in DiameterTexts}
    \cup {NumCell(Rat(85, 10)), NumCell(Rat(9625, 1000)), NumCell(Rat(9625, 1)),
          NumCell(Rat(100, 1)), NumCell(Rat(200000, 1)), EmptyCell, DateCell}

ColorCells == {TextCell("#FF0000"), EmptyCell}

MechRows ==
    {[Item |-> "Casing", Top_MD |-> Fin(0), Bottom_MD |-> Fin(2),
      Diameter |-> d, Color |-> TextCell("#FF0000")] : d \in DiameterCells}
    \cup {[Item |-> "Liner", Top_MD |-> Fin(2), Bottom_MD |-> Fin(4),
           Diameter |-> NumCell(Rat(7, 1)), Color |-> c] : c \in ColorCells}

\* the rows of the Mechanical sheets of more than one row: a text that does not
\* parse, a scale error, an empty cell, the liners
SomeMechRows ==
    {r \in MechRows :
        \/ r.Item = "Liner"
        \/ r.Diameter \in {TextCell(<<"x">>), TextCell(<<"9", "6", "2", "5">>), EmptyCell}}

MechSheets ==
    {Sheet(<<r>>) : r \in MechRows}
    \cup {Sheet(r) : r \in SeqsUpTo(SomeMechRows, MaxMechRows)}

\* the survey of the workbooks that vary the Mechanical sheet
PlainSurvey == Sheet(<<[MD |-> Fin(0), Inc |-> Fin(0), Azi |-> Fin(0)],
                       [MD |-> Fin(2), Inc |-> Fin(90), Azi |-> Fin(0)]>>)

Files ==
    {[readable |-> FALSE, survey |-> NoSheet, mech |-> NoSheet]}
    \cup {[readable |-> TRUE, survey |-> sv, mech |-> NoSheet] :
            sv \in {NoSheet, BadSheet} \cup {Sheet(r) : r \in SeqsUpTo(SurveyRows, MaxRows)}}
    \cup {[readable |-> TRUE, survey |-> PlainSurvey, mech |-> m] :
            m \in {BadSheet} \cup MechSheets}

(***************************************************************************)
(* The import: an uploaded workbook is handed to process_survey_file.      *)
(***************************************************************************)
NoTraj == [stations |-> <<>>, geometry |-> <<>>]
NoRange == [start_md |-> 0, end_md |-> 0]
NoPlot == [kind |-> "none", traces |-> <<>>]

\* a well without rows.  trajectories: the Trajectory rows in pk order, each with its
\* stations and geometry; imports: the SurveyImport rows; minute: the clock that
\* names a trajectory; nan_ok: the database stores a NaN in a NOT NULL float column;
\* before: the trajectories as they were when the last request came in;
\* active_trajectory: pk of the trajectory the detail page shows, 0 for none
NoWell ==
    [trajectories |-> <<>>, imports |-> {}, minute |-> 0, next_import |-> 1,
     next_traj |-> 1, nan_ok |-> FALSE, before |-> <<>>, active_trajectory |-> 0]

InitImport ==
    /\ pc = "uploaded"
    /\ file \in Files
    /\ status = "PENDING"
    /\ ret = FALSE
    /\ ntraj = 0
    /\ stations = <<>>
    /\ geoms = <<>>
    /\ traj = NoTraj
    /\ range = NoRange
    /\ segment = <<>>
    /\ plot = NoPlot
    /\ well = NoWell

ProcessSurveyFile ==
    /\ pc = "uploaded"
    /\ \E order \in FileOrders(file), nan_ok \in BOOLEAN :
         \E r \in {process_survey_file(file, order, nan_ok)} :
             /\ status' = r.status
             /\ ret' = r.ret
             /\ ntraj' = ntraj + r.created
             /\ stations' = r.stations
             /\ geoms' = r.geoms
    /\ pc' = "done"
    /\ UNCHANGED <<file, traj, range, segment, plot, well>>

NextImport == ProcessSurveyFile

SpecImport == InitImport /\ [][NextImport]_vars

(***************************************************************************)
(* visualizer.py: get_path_segment.  A station is [md, east, north, tvd]   *)
(* with whole numbers; a point of the result is [m, e, n, t], m being the  *)
(* entry of final_m and e, n, t fractions (an interpolated coordinate is   *)
(* kept exactly, over the denominator m1 - m0).                            *)
(***************************************************************************)
\* np.searchsorted(md_arr, x): the number of depths below x
SearchSorted(st, x) == Cardinality({i \in 1..Len(st) : st[i].md < x})

\* v0 + (v1 - v0) * factor, with factor = fn / fd
Lerp(v0, v1, fn, fd) == Rat(v0 * fd + (v1 - v0) * fn, fd)

\* lines 79 to 85 and 97 to 103: the point at depth x between the stations
\* idx_prev and idx_prev + 1 (indices from 0)
InterpolatedPoint(st, idx_prev, x) ==
    LET s0 == st[idx_prev + 1]
        s1 == st[idx_prev + 2]
        fn == IF s1.md > s0.md THEN x - s0.md ELSE 0
        fd == IF s1.md > s0.md THEN s1.md - s0.md ELSE 1
    IN  [m |-> x, e |-> Lerp(s0.east, s1.east, fn, fd),
         n |-> Lerp(s0.north, s1.north, fn, fd),
         t |-> Lerp(s0.tvd, s1.tvd, fn, fd)]

\* the guard with the last interval left out
HasBracketShort(st, idx_prev) == idx_prev >= 0 /\ idx_prev < Len(st) - 2

\* lines 77 and 96
HasBracket(st, idx_prev) == idx_prev >= 0 /\ idx_prev < Len(st) - 1

StationPoint(s) == [m |-> s.md, e |-> Rat(s.east, 1), n |-> Rat(s.north, 1),
                    t |-> Rat(s.tvd, 1)]

\* the mask with the two bounds left out
InRangeExclusive(s, start_md, end_md) == s.md > start_md /\ s.md < end_md

\* line 64
InRange(s, start_md, end_md) == s.md >= start_md /\ s.md <= end_md

\* lines 74 to 85
StartPoints(st, seg, start_md) ==
    IF Len(seg) = 0 \/ seg[1].md > start_md
    THEN LET idx_prev == SearchSorted(st, start_md) - 1
         IN  IF HasBracket(st, idx_prev)
             THEN <<InterpolatedPoint(st, idx_prev, start_md)>> ELSE <<>>
    ELSE <<>>

\* the end point clamped to the last station when nothing brackets end_md
EndPointsClamped(st, final, end_md) ==
    IF Len(final) > 0 /\ final[Len(final)].m < end_md
    THEN LET idx_prev == SearchSorted(st, end_md) - 1
         IN  IF HasBracket(st, idx_prev)
             THEN <<InterpolatedPoint(st, idx_prev, end_md)>>
             ELSE <<[StationPoint(st[Len(st)]) EXCEPT !.m = end_md]>>
    ELSE <<>>

\* lines 94 to 103
EndPoints(st, final, end_md) ==
    IF Len(final) > 0 /\ final[Len(final)].m < end_md
    THEN LET idx_prev == SearchSorted(st, end_md) - 1
         IN  IF HasBracket(st, idx_prev)
             THEN <<InterpolatedPoint(st, idx_prev, end_md)>> ELSE <<>>
    ELSE <<>>

get_path_segment(st, start_md, end_md) ==
    LET seg == SelectSeq(st, LAMBDA s : InRange(s, start_md, end_md))
        final == StartPoints(st, seg, start_md)
                 \o [i \in 1..Len(seg) |-> StationPoint(seg[i])]
    IN  final \o EndPoints(st, final, end_md)

(***************************************************************************)
(* visualizer.py: generate_3d_plot.  The figure is the sequence of traces  *)
(* added to it: a Surface per cylinder (its centre line and radius) and a  *)
(* Scatter3d per legend marker.  A label f"{item_type} ({diameter}\")" is  *)
(* the pair of its two parts.                                              *)
(***************************************************************************)
\* the radius taken from the diameter without halving it
VizRadiusOfDiameter(diameter) == Rat(diameter.num * 50, diameter.den * 12)

\* lines 109 and 127 to 128: (diameter / 2) / 12 * VISUAL_EXAGGERATION_FACTOR
VizRadius(diameter) == Rat(diameter.num * 50, diameter.den * 2 * 12)

Label(item) == <<item.item_type, item.diameter>>

\* create_3d_cylinder, lines 35 to 54
Cylinder(path, r, name) == [type |-> "Surface", name |-> name, path |-> path, r |-> r]

Marker(name, color) == [type |-> "Scatter3d", name |-> name, color |-> color]

\* lines 108 to 112
OpenHoleTraces(st) ==
    <<Cylinder([i \in 1..Len(st) |-> StationPoint(st[i])], VizRadius(Rat(85, 10)),
               "Open Hole"),
      Marker("Open Hole 8.5\"", "#1f77b4")>>

\* the test that lets a single point through
DrawableNonEmpty(path) == Len(path) > 0

\* line 126
Drawable(path) == Len(path) > 1

\* the legend marker added without looking at legend_items
LegendTracesAlways(item, legend_items) ==
    <<Marker(Label(item), IF item.color # "" THEN item.color ELSE "blue")>>

\* lines 138 to 144
LegendTraces(item, legend_items) ==
    IF Label(item) \notin legend_items
    THEN <<Marker(Label(item), IF item.color # "" THEN item.color ELSE "blue")>>
    ELSE <<>>

\* lines 120 to 144: the loop over the geometry rows from row k onwards
RECURSIVE GeometryTraces(_, _, _, _)
GeometryTraces(st, geometry, k, legend_items) ==
    IF k > Len(geometry) THEN <<>>
    ELSE LET item == geometry[k]
             path == get_path_segment(st, item.start_md, item.end_md)
         IN  IF Drawable(path)
             THEN <<Cylinder(path, VizRadius(item.diameter), Label(item))>>
                  \o LegendTraces(item, legend_items)
                  \o GeometryTraces(st, geometry, k + 1, legend_items \cup {Label(item)})
             ELSE GeometryTraces(st, geometry, k + 1, legend_items)

generate_3d_plot(tr) ==
    IF Len(tr.stations) = 0 THEN [kind |-> "message", traces |-> <<>>]
    ELSE IF Len(tr.geometry) = 0
    THEN [kind |-> "figure", traces |-> OpenHoleTraces(tr.stations)]
    ELSE [kind |-> "figure",
          traces |-> GeometryTraces(tr.stations, tr.geometry, 1, {})]

(***************************************************************************)
(* The stored trajectories of the model.  order_by('md') hands the         *)
(* stations over in ascending depth, order_by('start_md') the geometry     *)
(* rows in ascending start depth.                                          *)
(***************************************************************************)
Depths == 0..MaxDepth
PlotDepths == 0..MaxPlotDepth

\* (east, north, tvd) of the i-th station of a well, for two wells
Positions == {"curved", "slanted"}
Position(w, i) == IF w = "curved" THEN <<i * i, 2 * i, 5 * i>> ELSE <<0 - 3 * i, i, 4 * i>>

StationRow(d, p) == [md |-> d, east |-> p[1], north |-> p[2], tvd |-> p[3]]

\* ranges asked of get_path_segment: in and out of the station coverage
RangeDepths == -1..(MaxDepth + 1)

\* the wells of the plots: one station per depth of a set, on a curved path
CurveStation(d) == StationRow(d, <<d * d, 2 * d, 5 * d>>)

RECURSIVE CurveStations(_)
CurveStations(S) ==
    IF S = {} THEN <<>>
    ELSE LET d == CHOOSE x \in S : \A y \in S : x <= y
         IN  <<CurveStation(d)>> \o CurveStations(S \ {d})

ItemKinds == {[item_type |-> "Casing", diameter |-> Rat(9625, 1000), color |-> "#808080"],
              [item_type |-> "Liner", diameter |-> Rat(7, 1), color |-> ""]}

GeometryRows ==
    {[item_type |-> k.item_type, start_md |-> r[1], end_md |-> r[2],
      diameter |-> k.diameter, color |-> k.color] :
        k \in ItemKinds, r \in {x \in PlotDepths \X PlotDepths : x[1] <= x[2]}}

(***************************************************************************)
(* get_path_segment on a stored trajectory.                                *)
(***************************************************************************)
InitSegment ==
    /\ pc = "stored"
    /\ \E k \in 1..MaxStations : \E d \in [1..k -> Depths] : \E w \in Positions :
         /\ \A i \in 1..(k - 1) : d[i] <= d[i + 1]
         /\ traj = [stations |-> [i \in 1..k |-> StationRow(d[i], Position(w, i))],
                    geometry |-> <<>>]
    /\ range \in [start_md : RangeDepths, end_md : RangeDepths]
    /\ file = [readable |-> FALSE, survey |-> NoSheet, mech |-> NoSheet]
    /\ status = "PENDING"
    /\ ret = FALSE
    /\ ntraj = 1
    /\ stations = <<>>
    /\ geoms = <<>>
    /\ segment = <<>>
    /\ plot = NoPlot
    /\ well = NoWell

GetPathSegment ==
    /\ pc = "stored"
    /\ segment' = get_path_segment(traj.stations, range.start_md, range.end_md)
    /\ pc' = "done"
    /\ UNCHANGED <<file, status, ret, ntraj, stations, geoms, traj, range, plot, well>>

NextSegment == GetPathSegment

SpecSegment == InitSegment /\ [][NextSegment]_vars

(***************************************************************************)
(* generate_3d_plot on a stored trajectory.                                *)
(***************************************************************************)
InitPlot ==
    /\ pc = "stored"
    /\ \E S \in SUBSET PlotDepths : \E k \in 0..MaxGeom : \E g \in [1..k -> GeometryRows] :
         /\ \A i \in 1..(k - 1) : g[i].start_md <= g[i + 1].start_md
         /\ traj = [stations |-> CurveStations(S), geometry |-> g]
    /\ range = NoRange
    /\ file = [readable |-> FALSE, survey |-> NoSheet, mech |-> NoSheet]
    /\ status = "PENDING"
    /\ ret = FALSE
    /\ ntraj = 1
    /\ stations = <<>>
    /\ geoms = <<>>
    /\ segment = <<>>
    /\ plot = NoPlot
    /\ well = NoWell

Generate3DPlot ==
    /\ pc = "stored"
    /\ plot' = generate_3d_plot(traj)
    /\ pc' = "done"
    /\ UNCHANGED <<file, status, ret, ntraj, stations, geoms, traj, range, segment, well>>

NextPlot == Generate3DPlot

SpecPlot == InitPlot /\ [][NextPlot]_vars

(***************************************************************************)
(* views.py and delete_view.py: the uploads and deletions on one well.     *)
(* The database runs in autocommit (no transaction.atomic anywhere in the  *)
(* repository): each create, bulk_create, save and delete is kept as soon  *)
(* as it returns.                                                          *)
(***************************************************************************)
\* the uploads of the well model: unreadable, no Survey sheet, a plain survey, a
\* survey with a Mechanical sheet, a survey with an empty inclination cell, and a
\* Mechanical sheet with an empty diameter cell
WellFiles ==
    {[readable |-> FALSE, survey |-> NoSheet, mech |-> NoSheet],
     [readable |-> TRUE, survey |-> NoSheet, mech |-> NoSheet],
     [readable |-> TRUE, survey |-> PlainSurvey, mech |-> NoSheet],
     [readable |-> TRUE, survey |-> PlainSurvey,
      mech |-> Sheet(<<[Item |-> "Casing", Top_MD |-> Fin(0), Bottom_MD |-> Fin(2),
                        Diameter |-> TextCell(<<"9", "6", "2", "5">>),
                        Color |-> TextCell("#FF0000")]>>)],
     [readable |-> TRUE,
      survey |-> Sheet(<<[MD |-> Fin(0), Inc |-> Fin(0), Azi |-> Fin(0)],
                         [MD |-> Fin(2), Inc |-> NaN, Azi |-> Fin(0)]>>),
      mech |-> NoSheet],
     [readable |-> TRUE, survey |-> PlainSurvey,
      mech |-> Sheet(<<[Item |-> "Casing", Top_MD |-> Fin(0), Bottom_MD |-> Fin(2),
                        Diameter |-> EmptyCell, Color |-> TextCell("#FF0000")]>>)]}

\* utils.py line 62: f"Importado {created_at day/month hour:minute}"
TrajectoryName(minute) == minute

\* models.py line 83, unique_together: Trajectory.objects.create raises an
\* IntegrityError when the well has a trajectory of that name
NameTaken(w) == \E i \in 1..Len(w.trajectories) : w.trajectories[i].name = TrajectoryName(w.minute)

\* process_survey_file on a well that has rows already: the file is opened first
\* (line 56), then the trajectory is created (lines 59 to 64)
process_survey_file_on(w, f, order) ==
    IF f.readable /\ NameTaken(w) THEN Outcome("ERROR", FALSE, 0, <<>>, <<>>)
    ELSE process_survey_file(f, order, w.nan_ok)

InitWell ==
    /\ pc = "idle"
    /\ \E b \in BOOLEAN : well = [NoWell EXCEPT !.nan_ok = b]
    /\ file = [readable |-> FALSE, survey |-> NoSheet, mech |-> NoSheet]
    /\ status = "PENDING"
    /\ ret = FALSE
    /\ ntraj = 0
    /\ stations = <<>>
    /\ geoms = <<>>
    /\ traj = NoTraj
    /\ range = NoRange
    /\ segment = <<>>
    /\ plot = NoPlot

\* views.py lines 38 to 61
SurveyImportPost ==
    /\ well.next_import <= MaxImports
    /\ \E f \in WellFiles : \E order \in FileOrders(f) :
         \E r \in {process_survey_file_on(well, f, order)} :
             LET made == IF r.created = 1
                         THEN <<[id |-> well.next_traj,
                                 name |-> TrajectoryName(well.minute),
                                 source_import |-> well.next_import,
                                 is_active |-> r.ret,
                                 stations |-> r.stations,
                                 geometry |-> r.geoms]>>
                         ELSE <<>>
             IN  /\ well' = [well EXCEPT
                               !.trajectories = @ \o made,
                               !.imports = @ \cup {[id |-> well.next_import,
                                                    status |-> r.status]},
                               !.next_import = @ + 1,
                               !.next_traj = @ + r.created,
                               !.before = well.trajectories]
                 /\ file' = f
                 /\ status' = r.status
                 /\ ret' = r.ret
                 /\ stations' = r.stations
                 /\ geoms' = r.geoms
    /\ pc' = "imported"
    /\ UNCHANGED <<ntraj, traj, range, segment, plot>>

\* delete_view.py lines 8 to 21: the import goes first (source_import is SET_NULL, so
\* the trajectory stays), then the trajectory with its stations and geometry
TrajectoryDeletePost ==
    /\ \E i \in 1..Len(well.trajectories) :
         well' = [well EXCEPT
                    !.trajectories = SubSeq(@, 1, i - 1) \o SubSeq(@, i + 1, Len(@)),
                    !.imports = {m \in @ : m.id # well.trajectories[i].source_import},
                    !.before = well.trajectories]
    /\ pc' = "deleted"
    /\ UNCHANGED <<file, status, ret, ntraj, stations, geoms, traj, range, segment, plot>>

\* views.py lines 27 to 29: trajectories.filter(is_active=True).first()
ActiveTrajectory(w) ==
    LET act == SelectSeq(w.trajectories, LAMBDA t : t.is_active)
    IN  IF Len(act) = 0 THEN 0 ELSE act[1].id

WellDetailGet ==
    /\ well.active_trajectory # ActiveTrajectory(well)
    /\ well' = [well EXCEPT !.active_trajectory = ActiveTrajectory(well)]
    /\ UNCHANGED <<pc, file, status, ret, ntraj, stations, geoms, traj, range, segment, plot>>

\* the clock moves on to the next minute
Tick ==
    /\ well.minute < MaxMinute
    /\ well' = [well EXCEPT !.minute = @ + 1]
    /\ UNCHANGED <<pc, file, status, ret, ntraj, stations, geoms, traj, range, segment, plot>>

NextWell == SurveyImportPost \/ TrajectoryDeletePost \/ WellDetailGet \/ Tick

SpecWell == InitWell /\ [][NextWell]_vars

(***************************************************************************)
(* Claims about get_path_segment (SpecSegment).                            *)
(***************************************************************************)
StationDepths(st) == {st[i].md : i \in 1..Len(st)}
MinOf(S) == CHOOSE x \in S : \A y \in S : x <= y
MaxOf(S) == CHOOSE x \in S : \A y \in S : x >= y

\* the fraction q is the whole number v
RatIs(q, v) == q.num = v * q.den

\* the fraction q lies at depth x on the straight line from (m0, v0) to (m1, v1)
RatOnLine(q, x, m0, v0, m1, v1) ==
    q.num * (m1 - m0) = q.den * (v0 * (m1 - m0) + (v1 - v0) * (x - m0))

\* p is the position of the path at depth x: a station at that depth, or, when
\* there is none, the point at x on the line between the two adjacent stations
\* that bracket x
OnPathAt(p, st, x) ==
    /\ p.m = x
    /\ IF x \in StationDepths(st)
       THEN \E i \in 1..Len(st) :
              /\ st[i].md = x
              /\ RatIs(p.e, st[i].east) /\ RatIs(p.n, st[i].north) /\ RatIs(p.t, st[i].tvd)
       ELSE \E i \in 1..(Len(st) - 1) :
              /\ st[i].md < x /\ x < st[i + 1].md
              /\ RatOnLine(p.e, x, st[i].md, st[i].east, st[i + 1].md, st[i + 1].east)
              /\ RatOnLine(p.n, x, st[i].md, st[i].north, st[i + 1].md, st[i + 1].north)
              /\ RatOnLine(p.t, x, st[i].md, st[i].tvd, st[i + 1].md, st[i + 1].tvd)

RangeInCoverage ==
    /\ range.start_md < range.end_md
    /\ MinOf(StationDepths(traj.stations)) <= range.start_md
    /\ range.end_md <= MaxOf(StationDepths(traj.stations))

\* C1: for a range start < end inside the station coverage, the polyline returned by
\* get_path_segment begins with the position of the path at depth start and ends with
\* the position of the path at depth end, a bound that is no station depth being
\* interpolated between the two stations that bracket it.
C1_SegmentCoversRange ==
    (pc = "done" /\ RangeInCoverage) =>
        /\ Len(segment) >= 2
        /\ OnPathAt(segment[1], traj.stations, range.start_md)
        /\ OnPathAt(segment[Len(segment)], traj.stations, range.end_md)

\* C1 witness: both bounds fall between stations and a station lies inside the range
C1_Witness ==
    /\ pc = "done"
    /\ RangeInCoverage
    /\ range.start_md \notin StationDepths(traj.stations)
    /\ range.end_md \notin StationDepths(traj.stations)
    /\ Len(segment) = 3
    /\ segment[1].e.num % segment[1].e.den # 0
    /\ segment[3].t.num % segment[3].t.den # 0

(***************************************************************************)
(* Claims about process_survey_file (SpecImport).                          *)
(***************************************************************************)
SurveyRead == file.readable /\ file.survey.present /\ file.survey.cols
Measurements == file.survey.rows

RowFinite(r) == IsFinite(r.MD) /\ IsFinite(r.Inc) /\ IsFinite(r.Azi)
AllFinite(rows) == \A i \in 1..Len(rows) : RowFinite(rows[i])
DistinctDepths(rows) == \A i, j \in 1..Len(rows) : i # j => rows[i].MD # rows[j].MD
Permuted(rows, p) == [i \in 1..Len(rows) |-> rows[p[i]]]

\* C2: the stations do not depend on the row order of the sheet: every permutation of
\* the measurement list yields the same ordered stations with the same tvd, north,
\* east and dls.  Stated for finite values and pairwise distinct depths, where the
\* sort has a single outcome.
C2_OrderIndependent ==
    (pc = "done" /\ SurveyRead /\ AllFinite(Measurements) /\ DistinctDepths(Measurements)) =>
        \A p \in Perms(Len(Measurements)) :
            \A o \in SortOrders(Permuted(Measurements, p)) :
                Accumulate(Permuted(Measurements, p), o).out = stations

\* C3: a Survey sheet with the required columns and no rows ends the import with
\* status ERROR and return value False.
C3_EmptySurveyFails ==
    (pc = "done" /\ SurveyRead /\ Len(Measurements) = 0) =>
        (status = "ERROR" /\ ret = FALSE)

SmallestDepthIsZero(rows) ==
    /\ \E i \in 1..Len(rows) : rows[i].MD = Fin(0)
    /\ \A i \in 1..Len(rows) : ~FLess(rows[i].MD, Fin(0))

IsZeroTieIn(s) ==
    /\ s.md = Fin(0)
    /\ s.tvd = Fin(0) /\ s.north = Fin(0) /\ s.east = Fin(0)
    /\ s.dls = Fin(0)

\* C4: whenever the smallest measurement depth is zero, the first stored station is a
\* tie-in with tvd = north = east = 0 and dls = 0, whatever the inclination and
\* azimuth of that measurement and whatever its row in the sheet.  Stated for
\* pairwise distinct depths, where the sort has a single outcome.
C4_TieInAtZero ==
    (pc = "done" /\ status = "PROCESSED" /\ SurveyRead
        /\ DistinctDepths(Measurements) /\ SmallestDepthIsZero(Measurements)) =>
        IsZeroTieIn(stations[1])

\* The same with a number in every inclination and azimuth cell: then the first
\* station is the zero tie-in in every row order.
TieInAtZeroFinite ==
    (pc = "done" /\ status = "PROCESSED" /\ SurveyRead /\ AllFinite(Measurements)
        /\ SmallestDepthIsZero(Measurements)) =>
        IsZeroTieIn(stations[1])

Datum == [md |-> Fin(0), inclination |-> Fin(0), azimuth |-> Fin(0),
          tvd |-> Fin(0), north |-> Fin(0), east |-> Fin(0), dls |-> Fin(0)]

\* station s continues station prev by the minimum_curvature increment of the pair
Continues(prev, s) ==
    LET d == minimum_curvature(prev.md, prev.inclination, prev.azimuth,
                               s.md, s.inclination, s.azimuth)
    IN  /\ ~d.raised
        /\ s.north = FAdd(prev.north, d.delta_north)
        /\ s.east = FAdd(prev.east, d.delta_east)
        /\ s.tvd = FAdd(prev.tvd, d.delta_tvd)
        /\ s.dls = d.dls

\* C5: one station per measurement, in ascending depth, and every station other than
\* a depth-zero first station is the previous station (the zero datum for the first)
\* plus the minimum_curvature increment of the pair, with that pair's dls; no later
\* station gets the zero increment of the tie-in.  Stated for finite values.
C5_StationsAccumulate ==
    (pc = "done" /\ status = "PROCESSED" /\ SurveyRead /\ AllFinite(Measurements)) =>
        /\ Len(stations) = Len(Measurements)
        /\ \E p \in Perms(Len(Measurements)) : \A i \in 1..Len(stations) :
               /\ stations[i].md = Measurements[p[i]].MD
               /\ stations[i].inclination = Measurements[p[i]].Inc
               /\ stations[i].azimuth = Measurements[p[i]].Azi
        /\ \A i \in 1..(Len(stations) - 1) : ~FLess(stations[i + 1].md, stations[i].md)
        /\ \A i \in 1..Len(stations) :
               \/ i = 1 /\ IsZeroTieIn(stations[1])
               \/ Continues(IF i = 1 THEN Datum ELSE stations[i - 1], stations[i])

\* The same for depths that are not negative, where the row with label 0 and depth 0
\* can only come after rows of depth 0.
StationsAccumulateFromZero ==
    (pc = "done" /\ status = "PROCESSED" /\ SurveyRead /\ AllFinite(Measurements)
        /\ \A i \in 1..Len(Measurements) : ~FLess(Measurements[i].MD, Fin(0))) =>
        /\ Len(stations) = Len(Measurements)
        /\ \A i \in 1..(Len(stations) - 1) : ~FLess(stations[i + 1].md, stations[i].md)
        /\ \A i \in 1..Len(stations) :
               \/ i = 1 /\ IsZeroTieIn(stations[1])
               \/ Continues(IF i = 1 THEN Datum ELSE stations[i - 1], stations[i])

\* C6: a NaN or an infinity in a depth, inclination or azimuth cell ends the import
\* with status ERROR and no station is stored.
C6_NonFiniteRejected ==
    (pc = "done" /\ SurveyRead /\ ~AllFinite(Measurements)) =>
        (status = "ERROR" /\ stations = <<>>)

MechRead == file.mech.present /\ file.mech.cols
MechCells == file.mech.rows

\* two diameters are the same number
SameNumber(a, b) ==
    IF a.k = "fin" /\ b.k = "fin" THEN a.num * b.den = b.num * a.den ELSE a.k = b.k

\* the number a raw cell parses to: a text after replacing comma by period, a
\* numeric cell as it is; a date and an unparsable text do not parse
ParsedCell(raw) ==
    IF raw.t = "str" THEN ParseFloat(ReplaceComma(raw.s))
    ELSE IF raw.t = "num" THEN [ok |-> TRUE, val |-> raw.f]
    ELSE [ok |-> FALSE]

\* d is the diameter the reference rule gives for the raw cell
FollowsRule(raw, d) ==
    LET p == ParsedCell(raw)
    IN  IF ~p.ok THEN SameNumber(d, Rat(17, 2))
        ELSE IF p.val.k = "fin" /\ p.val.num > 100 * p.val.den
        THEN d.k = "fin" /\ d.num * p.val.den * 1000 = p.val.num * d.den
        ELSE SameNumber(d, p.val)

RuleExamples(raw, d) ==
    /\ raw = TextCell(<<"9", "6", "2", "5">>) => SameNumber(d, Rat(9625, 1000))
    /\ raw = TextCell(<<"9", ",", "6", "2", "5">>) => SameNumber(d, Rat(9625, 1000))
    /\ raw = TextCell(<<"n", "o", "t", "-", "a", "-", "n", "u", "m", "b", "e", "r">>)
           => SameNumber(d, Rat(85, 10))

Surfaces == SelectSeq(plot.traces, LAMBDA t : t.type = "Surface")
Markers == SelectSeq(plot.traces, LAMBDA t : t.type = "Scatter3d")

PathOf(g) == get_path_segment(traj.stations, g.start_md, g.end_md)

\* the geometry rows whose interpolated path has at least 2 points, in row order
Emitted == SelectSeq(traj.geometry, LAMBDA g : Len(PathOf(g)) >= 2)

WithGeometry == pc = "done" /\ Len(traj.stations) > 0 /\ Len(traj.geometry) > 0

RECURSIVE Gcd(_, _)
Gcd(a, b) == IF b = 0 THEN a ELSE Gcd(b, a % b)

\* the fraction num / den (both positive) in lowest terms
Lowest(num, den) == <<num \div Gcd(num, den), den \div Gcd(num, den)>>

\* q is the number num / den
RatEquals(q, num, den) == Lowest(q.num, q.den) = Lowest(num, den)

\* C7: with geometry rows, a row yields a cylinder exactly when its interpolated path
\* has at least 2 points; other rows are skipped without ending the loop, and the
\* cylinders come in the order of the rows.
C7_CylinderIffTwoPoints ==
    WithGeometry =>
        /\ plot.kind = "figure"
        /\ Len(Surfaces) = Len(Emitted)
        /\ \A i \in 1..Len(Surfaces) :
               /\ Surfaces[i].name = Label(Emitted[i])
               /\ Surfaces[i].path = PathOf(Emitted[i])
               /\ RatEquals(Surfaces[i].r, Emitted[i].diameter.num * 50,
                            Emitted[i].diameter.den * 24)

\* C7 witness: a row with a path of one point is skipped and the row after it drawn
C7_Witness ==
    /\ WithGeometry
    /\ Len(traj.geometry) = 2
    /\ Len(PathOf(traj.geometry[1])) = 1
    /\ Len(Surfaces) = 1
    /\ Surfaces[1].path = PathOf(traj.geometry[2])

\* C8: the legend markers hold each label at most once, one per distinct label of the
\* emitted rows, while every emitted row has its own cylinder, a repeated label too.
C8_LegendDeduplicated ==
    WithGeometry =>
        /\ \A i, j \in 1..Len(Markers) : Markers[i].name = Markers[j].name => i = j
        /\ {Markers[i].name : i \in 1..Len(Markers)}
               = {Label(Emitted[i]) : i \in 1..Len(Emitted)}
        /\ Len(Markers) = Cardinality({Label(Emitted[i]) : i \in 1..Len(Emitted)})
        /\ Len(Surfaces) = Len(Emitted)

\* C8 witness: two emitted rows with the same label
C8_Witness ==
    /\ WithGeometry
    /\ Len(Emitted) = 2
    /\ Label(Emitted[1]) = Label(Emitted[2])
    /\ Len(Surfaces) = 2
    /\ Len(Markers) = 1

\* C9: with stations and no geometry rows the plot has exactly one cylinder, the open
\* hole, along every station in depth order, its radius taken from the diameter 8.5.
C9_OpenHoleDefault ==
    (pc = "done" /\ Len(traj.stations) > 0 /\ Len(traj.geometry) = 0) =>
        /\ plot.kind = "figure"
        /\ Len(Surfaces) = 1
        /\ Surfaces[1].name = "Open Hole"
        /\ Len(Surfaces[1].path) = Len(traj.stations)
        /\ \A i \in 1..Len(traj.stations) :
               /\ Surfaces[1].path[i].m = traj.stations[i].md
               /\ RatIs(Surfaces[1].path[i].e, traj.stations[i].east)
               /\ RatIs(Surfaces[1].path[i].n, traj.stations[i].north)
               /\ RatIs(Surfaces[1].path[i].t, traj.stations[i].tvd)
        /\ RatEquals(Surfaces[1].r, 85 * 50, 10 * 2 * 12)
        /\ Len(Markers) = 1

\* C9 witness: an open-hole plot of a trajectory of two stations
C9_Witness ==
    /\ pc = "done"
    /\ Len(traj.stations) = 2
    /\ Len(traj.geometry) = 0
    /\ Len(Surfaces) = 1
    /\ Len(Surfaces[1].path) = 2

(***************************************************************************)
(* Claims about the colour of the geometry rows (SpecImport).              *)
(***************************************************************************)
\* C11: a Mechanical row whose Color cell is empty is stored with the neutral gray
\* default colour, not with a text rendering of the missing value.
C11_MissingColorIsGray ==
    (pc = "done" /\ status = "PROCESSED" /\ MechRead) =>
        \A i \in 1..Len(geoms) :
            MechCells[i].Color = EmptyCell => geoms[i].color = DefaultColor

(***************************************************************************)
(* Claims about ranges that leave the station coverage (SpecSegment).      *)
(***************************************************************************)
FirstDepth == MinOf(StationDepths(traj.stations))
LastDepth == MaxOf(StationDepths(traj.stations))

\* the stations inside the requested range, as points, in depth order
PointsInRange ==
    LET seg == SelectSeq(traj.stations,
                         LAMBDA s : s.md >= range.start_md /\ s.md <= range.end_md)
    IN  [i \in 1..Len(seg) |-> StationPoint(seg[i])]

EntirelyOutside ==
    /\ range.start_md <= range.end_md
    /\ range.end_md < FirstDepth \/ range.start_md > LastDepth

\* C12: a start below the first station adds no point before the stations in range,
\* an end above the last station adds none after them; no returned point lies outside
\* the station coverage, and a range entirely outside the coverage gives no point.
C12_ShorterOutsideCoverage ==
    pc = "done" =>
        /\ range.start_md < FirstDepth =>
               /\ \A i \in 1..Len(segment) : segment[i].m >= FirstDepth
               /\ Len(segment) >= Len(PointsInRange)
               /\ SubSeq(segment, 1, Len(PointsInRange)) = PointsInRange
        /\ range.end_md > LastDepth =>
               /\ \A i \in 1..Len(segment) : segment[i].m <= LastDepth
               /\ Len(segment) >= Len(PointsInRange)
               /\ SubSeq(segment, Len(segment) - Len(PointsInRange) + 1, Len(segment))
                      = PointsInRange
        /\ (range.start_md < FirstDepth /\ range.end_md > LastDepth) =>
               segment = [i \in 1..Len(traj.stations) |-> StationPoint(traj.stations[i])]
        /\ EntirelyOutside => segment = <<>>

\* C12 witness: the start is interpolated between two stations, the end lies above the
\* last station, and the polyline stops at the last station
C12_Witness ==
    /\ pc = "done"
    /\ range.end_md > LastDepth
    /\ range.start_md > FirstDepth
    /\ range.start_md \notin StationDepths(traj.stations)
    /\ Len(segment) >= 2
    /\ segment[1].m = range.start_md
    /\ segment[Len(segment)].m = LastDepth

(***************************************************************************)
(* Claims about the uploads and deletions on a well (SpecWell).            *)
(***************************************************************************)
\* the import of the last upload
LastImport == well.next_import - 1

\* C13: after a successful upload the trajectory it generated is active only if it is
\* the only trajectory of the well, whatever uploads and deletions came before.
C13_ActiveOnlyIfOnly ==
    (pc = "imported" /\ ret) =>
        \A i \in 1..Len(well.trajectories) :
            (well.trajectories[i].source_import = LastImport
             /\ well.trajectories[i].is_active) => Len(well.trajectories) = 1
\* C14: when process_survey_file returns False the import has status ERROR and the
\* trajectories of the well, with their stations and geometry, are exactly those that
\* were there before the upload.
C14_FailedImportConfined ==
    (pc = "imported" /\ ~ret) =>
        /\ status = "ERROR"
        /\ \E m \in well.imports : m.id = LastImport /\ m.status = "ERROR"
        /\ well.trajectories = well.before
\* the part of C14 that holds: a failed upload has status ERROR and leaves the rows
\* that were there before as they were
FailedImportKeepsOthers ==
    (pc = "imported" /\ ~ret) =>
        /\ status = "ERROR"
        /\ Len(well.trajectories) >= Len(well.before)
        /\ SubSeq(well.trajectories, 1, Len(well.before)) = well.before

(***************************************************************************)
(* Claims about the depths of the points of a segment (SpecSegment).       *)
(***************************************************************************)
StrictlyIncreasing(st) == \A i \in 1..(Len(st) - 1) : st[i].md < st[i + 1].md

\* the stations the mask selects, and the list before the end point is added
SelectedStations ==
    SelectSeq(traj.stations, LAMBDA s : InRange(s, range.start_md, range.end_md))
BeforeEnd ==
    StartPoints(traj.stations, SelectedStations, range.start_md)
    \o [i \in 1..Len(SelectedStations) |-> StationPoint(SelectedStations[i])]

StartInterpolated == StartPoints(traj.stations, SelectedStations, range.start_md) # <<>>
EndInterpolated == EndPoints(traj.stations, BeforeEnd, range.end_md) # <<>>

\* m0 and m1 of the interpolation at depth x (lines 76 to 79 and 95 to 98)
BracketOf(x) ==
    LET idx_prev == SearchSorted(traj.stations, x) - 1
    IN  <<traj.stations[idx_prev + 1].md, traj.stations[idx_prev + 2].md>>

\* the fraction (x - m0) / (m1 - m0) lies strictly between 0 and 1
FractionInside(x) == BracketOf(x)[1] < x /\ x < BracketOf(x)[2]
\* the fraction lies above 0 and is at most 1
FractionUpToOne(x) == BracketOf(x)[1] < x /\ x <= BracketOf(x)[2]

DepthsIncrease == \A i \in 1..(Len(segment) - 1) : segment[i].m < segment[i + 1].m
DepthsInRange ==
    \A i \in 1..Len(segment) :
        range.start_md <= segment[i].m /\ segment[i].m <= range.end_md

\* C15 as stated: for stations of strictly increasing depth and any start and end, the
\* depths of the points increase strictly and lie within [start, end], every
\* interpolated end point uses a fraction strictly between 0 and 1, and a range with
\* start >= end gives at most one point.
C15_DepthsWithinRange ==
    (pc = "done" /\ StrictlyIncreasing(traj.stations)) =>
        /\ DepthsIncrease
        /\ DepthsInRange
        /\ StartInterpolated => FractionInside(range.start_md)
        /\ EndInterpolated => FractionInside(range.end_md)
        /\ range.start_md >= range.end_md => Len(segment) <= 1

\* C15 amended: the depths increase strictly and a range with start >= end gives at
\* most one point, for any start and end; for start <= end the depths lie within
\* [start, end] and the fractions strictly between 0 and 1; for start > end the only
\* point there can be is the start point, at depth start, its fraction above 0 and at
\* most 1.  The interval m1 - m0 of an interpolation is never 0.
C15_DepthsWithinOrderedRange ==
    (pc = "done" /\ StrictlyIncreasing(traj.stations)) =>
        /\ DepthsIncrease
        /\ range.start_md >= range.end_md => Len(segment) <= 1
        /\ StartInterpolated => BracketOf(range.start_md)[1] < BracketOf(range.start_md)[2]
        /\ EndInterpolated => BracketOf(range.end_md)[1] < BracketOf(range.end_md)[2]
        /\ range.start_md <= range.end_md =>
               /\ DepthsInRange
               /\ StartInterpolated => FractionInside(range.start_md)
               /\ EndInterpolated => FractionInside(range.end_md)
        /\ range.start_md > range.end_md =>
               /\ ~EndInterpolated
               /\ \A i \in 1..Len(segment) : segment[i].m = range.start_md
               /\ Len(segment) = 1 <=> StartInterpolated
               /\ StartInterpolated => FractionUpToOne(range.start_md)

\* C15 witness: both end points are interpolated around a station inside the range
C15_Witness ==
    /\ pc = "done"
    /\ StrictlyIncreasing(traj.stations)
    /\ range.start_md < range.end_md
    /\ StartInterpolated /\ EndInterpolated
    /\ Len(segment) = 3
    /\ segment[1].m = range.start_md /\ segment[3].m = range.end_md

====
